---- MODULE Spec2Model ----
(***************************************************************************)
(* Model of Zapman's request executor, fetchAPI (src/app/utils/fetchAPI.ts, *)
(* the variant with timeout, retry and exponential backoff).               *)
(*                                                                         *)
(* One call of fetchAPI is modelled.  The async function is cut at its     *)
(* await points: every action is the code that runs between two awaits.    *)
(* Time is a discrete clock `now`; timers fire when their deadline is      *)
(* reached, and the clock never passes the deadline of a pending timer.    *)
(* Texts the code searches with String.includes are sequences of           *)
(* characters, so that the search is computed and not assumed.             *)
(***************************************************************************)
EXTENDS Integers, Sequences, FiniteSets, TLC

(***************************************************************************)
(* Bounds of the model.                                                    *)
(***************************************************************************)
MaxRetries == 3
MaxTimeout == 2
MaxRetryDelay == 2
MaxTime == 7
\* The page: submissions made since it was last cleared while idle, requests
\* in flight at once, and the last of those submissions whose request may
\* complete before an older one that is still in flight.
MaxSubmits == 22
MaxPending == 2
MaxOvertaker == 2

(***************************************************************************)
(* Texts as sequences of characters.                                       *)
(***************************************************************************)
sNetwork == <<"N", "e", "t", "w", "o", "r", "k">>
msgFailedToFetch == <<"F", "a", "i", "l", "e", "d", " ", "t", "o", " ", "f", "e", "t", "c", "h">>
msgNetworkError == <<"N", "e", "t", "w", "o", "r", "k", "E", "r", "r", "o", "r", " ", "w", "h", "e", "n", " ", "a", "t", "t", "e", "m", "p", "t", "i", "n", "g", " ", "t", "o", " ", "f", "e", "t", "c", "h", " ", "r", "e", "s", "o", "u", "r", "c", "e", ".">>
msgAborted == <<"s", "i", "g", "n", "a", "l", " ", "i", "s", " ", "a", "b", "o", "r", "t", "e", "d", " ", "w", "i", "t", "h", "o", "u", "t", " ", "r", "e", "a", "s", "o", "n">>
msgCircular == <<"C", "o", "n", "v", "e", "r", "t", "i", "n", "g", " ", "c", "i", "r", "c", "u", "l", "a", "r", " ", "s", "t", "r", "u", "c", "t", "u", "r", "e", " ", "t", "o", " ", "J", "S", "O", "N">>
msgParseUrl == <<"F", "a", "i", "l", "e", "d", " ", "t", "o", " ", "p", "a", "r", "s", "e", " ", "U", "R", "L", " ", "f", "r", "o", "m", " ">>
urlOk == <<"h", "t", "t", "p", "s", ":", "/", "/", "e", "x", "a", "m", "p", "l", "e", ".", "t", "e", "s", "t", "/", "o", "k">>
urlBad == <<"h", "t", "t", "p", ":", "/", "/", "N", "e", "t", "w", "o", "r", "k", " ", "x">>
ctJson == <<"a", "p", "p", "l", "i", "c", "a", "t", "i", "o", "n", "/", "j", "s", "o", "n">>
ctTextXml == <<"t", "e", "x", "t", "/", "x", "m", "l">>
ctHtml == <<"t", "e", "x", "t", "/", "h", "t", "m", "l">>
ctAppXml == <<"a", "p", "p", "l", "i", "c", "a", "t", "i", "o", "n", "/", "x", "m", "l">>
ctXhtml == <<"a", "p", "p", "l", "i", "c", "a", "t", "i", "o", "n", "/", "x", "h", "t", "m", "l", "+", "x", "m", "l">>
ctJsonUtf8 == <<"a", "p", "p", "l", "i", "c", "a", "t", "i", "o", "n", "/", "j", "s", "o", "n", ";", " ", "c", "h", "a", "r", "s", "e", "t", "=", "u", "t", "f", "-", "8">>
ctPlain == <<"t", "e", "x", "t", "/", "p", "l", "a", "i", "n">>
emptyText == <<>>

\* String.prototype.includes: sub occurs in s as a contiguous run of characters.
Includes(s, sub) ==
    \E i \in 0..(Len(s) - Len(sub)) : SubSeq(s, i + 1, i + Len(sub)) = sub

(***************************************************************************)
(* JavaScript values: tagged records.                                      *)
(***************************************************************************)
Undefined == [t |-> "undefined"]
JNull == [t |-> "null"]
JBool(b) == [t |-> "boolean", v |-> b]
JNum(n) == [t |-> "number", v |-> n]
JStr(s) == [t |-> "string", v |-> s]
JArr(items) == [t |-> "array", items |-> items]
\* An object is the sequence of its own properties, <<key, value>>, in insertion order.
JObj(props) == [t |-> "object", props |-> props]
\* An object that holds a reference to itself.
Cyclic == [t |-> "cyclic"]
\* The result of DOMParser.parseFromString(text, mime).
Document(text, mime) == [t |-> "document", mime |-> mime, source |-> text]

\* typeof v
TypeOf(v) ==
    IF v.t \in {"null", "array", "object", "cyclic", "document"} THEN "object" ELSE v.t

\* JSON.stringify throws a TypeError on a circular structure.
StringifyThrows(v) == v.t = "cyclic"

RECURSIVE JSONstringify(_)
RECURSIVE JoinItems(_)
RECURSIVE JoinProps(_)

JoinItems(items) ==
    IF Len(items) = 0 THEN ""
    ELSE IF Len(items) = 1 THEN JSONstringify(Head(items))
    ELSE JSONstringify(Head(items)) \o "," \o JoinItems(Tail(items))

JoinProps(props) ==
    IF Len(props) = 0 THEN ""
    ELSE LET p == Head(props)
             one == "\"" \o p[1] \o "\":" \o JSONstringify(p[2])
         IN IF Len(props) = 1 THEN one ELSE one \o "," \o JoinProps(Tail(props))

\* JSON.stringify(v): the JSON text of v.
JSONstringify(v) ==
    CASE v.t = "null" -> "null"
      [] v.t = "boolean" -> (IF v.v THEN "true" ELSE "false")
      [] v.t = "number" -> ToString(v.v)
      [] v.t = "string" -> "\"" \o v.v \o "\""
      [] v.t = "array" -> "[" \o JoinItems(v.items) \o "]"
      [] v.t = "object" -> "{" \o JoinProps(v.props) \o "}"

\* The values JSON.parse can produce in this model.
JSONValues ==
    { JNull, JBool(TRUE), JNum(1), JStr("a"),
      JArr(<<JNum(1)>>),
      JObj(<<>>),
      JObj(<< <<"ok", JBool(TRUE)>> >>),
      JObj(<< <<"a", JNum(1)>> >>) }

\* JSON.parse succeeds on text exactly when text is the JSON text of a value.
JSONparseOk(text) == \E v \in JSONValues : JSONstringify(v) = text
JSONparse(text) == CHOOSE v \in JSONValues : JSONstringify(v) = text

(***************************************************************************)
(* Header objects: functions from header names to values.                  *)
(***************************************************************************)
NoHeaders == [k \in {} |-> ""]
OneHeader(k, v) == [x \in {k} |-> v]
HeaderSet(h, k, v) == [x \in (DOMAIN h) \cup {k} |-> IF x = k THEN v ELSE h[x]]
\* h[k] || d : a missing or empty value is falsy.
HeaderOr(h, k, d) == IF k \in DOMAIN h /\ h[k] # "" THEN h[k] ELSE d
\* String.prototype.toLowerCase on the header names of the model.
LowerName(k) ==
    CASE k = "Content-Type" -> "content-type"
      [] k = "CONTENT-TYPE" -> "content-type"
      [] k = "X-Api-Key" -> "x-api-key"
      [] OTHER -> k

(***************************************************************************)
(* Inputs of a call and outcomes of the environment.                       *)
(***************************************************************************)
Methods == {"GET", "POST", "PUT", "PATCH", "DELETE"}
BodyMethods == {"POST", "PUT", "PATCH"}
Urls == {urlOk, urlBad}
Bodies == {Undefined, JStr("raw"), JNull, JObj(<< <<"a", JNum(1)>> >>), Cyclic}
\* Header objects a caller passes: at most one Content-Type, under some casing.
CallerHeaders ==
    { NoHeaders,
      OneHeader("Content-Type", "text/plain"),
      OneHeader("Content-Type", ""),
      OneHeader("content-type", "text/plain"),
      OneHeader("X-Api-Key", "k") }
\* responseFormat; "" stands for an absent field.
Formats == {"", "json", "xml", "html"}

\* Messages of the TypeError with which fetch rejects on a network failure:
\* the wording is the runtime's (Chromium; Firefox).
NetworkMessages == {msgFailedToFetch, msgNetworkError}

TypeError(m) == [t |-> "error", name |-> "TypeError", message |-> m]
\* controller.abort() makes fetch reject with a DOMException named AbortError.
AbortError == [t |-> "error", name |-> "AbortError", message |-> msgAborted]

\* The URL parser rejects a URL with a space in its host.
ValidUrl(u) == ~Includes(u, <<" ">>)

StatusTextOf(s) ==
    CASE s = 200 -> "OK"
      [] s = 404 -> "Not Found"
      [] s = 500 -> "Internal Server Error"
      [] OTHER -> ""
Statuses == {200, 404, 500}
ContentTypes == {ctJson, ctJsonUtf8, ctAppXml, ctTextXml, ctXhtml, ctHtml, ctPlain}
ResponseHeaders ==
    {[k \in {} |-> emptyText]} \cup {[k \in {"Content-Type"} |-> c] : c \in ContentTypes}
RawTexts == {"{\"ok\":true}", "oops", "<a/>"}
Responses ==
    [status : Statuses, headers : ResponseHeaders, rawText : RawTexts]
\* A server with three answers: a JSON document, an HTML error page, a bare 500.
BasicResponses ==
    { [status |-> 200, headers |-> [k \in {"Content-Type"} |-> ctJson],
       rawText |-> "{\"ok\":true}"],
      [status |-> 404, headers |-> [k \in {"Content-Type"} |-> ctHtml],
       rawText |-> "<a/>"],
      [status |-> 500, headers |-> [k \in {} |-> emptyText], rawText |-> "oops"] }
NoResponse == Undefined

(***************************************************************************)
(* State.                                                                  *)
(***************************************************************************)
VARIABLES
    opts,         \* the ApiRequestOptions of the call, headers apart
    headers,      \* options.headers: the caller's object, shared with the call
    hasDOMParser, \* typeof DOMParser !== 'undefined' in this runtime
    server,       \* the responses the server may answer with
    callerHeaders, \* the entries options.headers held when the call was made
    pc,           \* "init", "fetching", "reading", "backoff", "returned", "thrown"
    attempt,      \* the loop variable
    now,          \* Date.now()
    start,        \* start of the current attempt
    timers,       \* pending abort timers: [id, deadline]
    backoffUntil, \* deadline of the pending backoff timer
    response,     \* the Response fetch resolved with
    lastError,
    result,       \* the ApiResponse returned
    thrown,       \* the value thrown to the caller
    exchanges,    \* history: the init of every fetch issued
    waits,        \* history: the delay of every backoff wait
    outcomes      \* history: how every attempt ended

\* State of the page (HomePage).
VARIABLES
    uiResponse,      \* useState response: the result shown, or null
    loading,         \* useState loading
    history,         \* useState history: entries, oldest first
    selectedHistory, \* useState selectedHistory: an entry, or null
    pending,         \* the submissions whose handleSubmit awaits fetchAPI
    submitted,       \* submissions made since the page was last cleared while idle
    reported,        \* the last completion sent a "Non-2xx response" message
    uiLast           \* history: the last thing the page did

uiVars == <<uiResponse, loading, history, selectedHistory, pending, submitted,
            reported, uiLast>>

\* What a call never changes: its options, its environment and the page.
envVars == <<opts, hasDOMParser, server, callerHeaders, uiVars>>

fetchVars == <<opts, headers, hasDOMParser, server, callerHeaders, pc, attempt, now,
               start, timers, backoffUntil, response, lastError, result, thrown,
               exchanges, waits, outcomes>>

vars == <<fetchVars, uiVars>>

(***************************************************************************)
(* Pure parts of fetchAPI.                                                 *)
(***************************************************************************)
\* response.headers.get("content-type") || ""
ContentTypeOf(resp) ==
    IF \E k \in DOMAIN resp.headers : LowerName(k) = "content-type"
    THEN resp.headers[CHOOSE k \in DOMAIN resp.headers : LowerName(k) = "content-type"]
    ELSE emptyText

\* ParseBody as it would be if the JSON text were never parsed.
ParseBodyRaw(format, contentType, rawText, domParser) == JStr(rawText)

\* ParseMode as it would be if a recognised content type won over responseFormat.
ParseModeHeaderFirst(format, contentType) ==
    IF Includes(contentType, ctJson) \/ (contentType = emptyText /\ format = "json")
    THEN "json"
    ELSE IF Includes(contentType, ctAppXml) \/ Includes(contentType, ctTextXml)
            \/ Includes(contentType, ctXhtml) \/ format = "xml"
    THEN "xml"
    ELSE IF Includes(contentType, ctHtml) \/ format = "html"
    THEN "html"
    ELSE "text"

\* ParseMode as it would be if text/xml were not among the XML content types.
ParseModeNoTextXml(format, contentType) ==
    IF format = "json" \/ (format = "" /\ Includes(contentType, ctJson))
    THEN "json"
    ELSE IF format = "xml"
            \/ (format = "" /\ (Includes(contentType, ctAppXml)
                                \/ Includes(contentType, ctXhtml)))
    THEN "xml"
    ELSE IF format = "html" \/ (format = "" /\ Includes(contentType, ctHtml))
    THEN "html"
    ELSE "text"

\* The branch of the if/else-if chain that reads the body: responseFormat when
\* given, else the content type.
ParseMode(format, contentType) ==
    IF format = "json" \/ (format = "" /\ Includes(contentType, ctJson))
    THEN "json"
    ELSE IF format = "xml"
            \/ (format = "" /\ (Includes(contentType, ctAppXml)
                                \/ Includes(contentType, ctTextXml)
                                \/ Includes(contentType, ctXhtml)))
    THEN "xml"
    ELSE IF format = "html" \/ (format = "" /\ Includes(contentType, ctHtml))
    THEN "html"
    ELSE "text"

\* ParseJson as it would be if a parse failure gave null.
ParseJsonNullOnFailure(rawText) ==
    IF JSONparseOk(rawText) THEN JSONparse(rawText) ELSE JNull

\* try { JSON.parse(rawText) } catch { rawText }
ParseJson(rawText) ==
    IF JSONparseOk(rawText) THEN JSONparse(rawText) ELSE JStr(rawText)

\* The body of the result: parse mode from responseFormat, else from the content type.
ParseBody(format, contentType, rawText, domParser) ==
    CASE ParseMode(format, contentType) = "json" -> ParseJson(rawText)
      [] ParseMode(format, contentType) = "xml" ->
            (IF domParser THEN Document(rawText, "application/xml") ELSE JStr(rawText))
      [] ParseMode(format, contentType) = "html" ->
            (IF domParser THEN Document(rawText, "text/html") ELSE JStr(rawText))
      [] OTHER -> JStr(rawText)

\* headersObj: the response headers under lower-cased names.
LowerHeaders(h) ==
    [n \in {LowerName(k) : k \in DOMAIN h} |->
        h[CHOOSE k \in DOMAIN h : LowerName(k) = n]]

\* SuccessResult as it would be if every result carried an error field.
SuccessResultWithError(resp, durationMs, o, domParser) ==
    [status |-> resp.status,
     statusText |-> StatusTextOf(resp.status),
     contentType |-> ContentTypeOf(resp),
     headers |-> LowerHeaders(resp.headers),
     body |-> ParseBody(o.responseFormat, ContentTypeOf(resp), resp.rawText, domParser),
     durationMs |-> durationMs,
     sizeInBytes |-> Len(resp.rawText),
     error |-> emptyText]

\* The ApiResponse of a completed exchange.
SuccessResult(resp, durationMs, o, domParser) ==
    LET base == [status |-> resp.status,
                 statusText |-> StatusTextOf(resp.status),
                 contentType |-> ContentTypeOf(resp),
                 headers |-> LowerHeaders(resp.headers),
                 body |-> ParseBody(o.responseFormat, ContentTypeOf(resp),
                                    resp.rawText, domParser),
                 durationMs |-> durationMs,
                 sizeInBytes |-> Len(resp.rawText)]
    IN IF o.includeRawText THEN base @@ [rawText |-> resp.rawText] ELSE base

\* ErrorResult as it would be if the message of the failure were dropped.
ErrorResultNoMessage(durationMs, error) ==
    [status |-> 0,
     statusText |-> "Network error",
     contentType |-> emptyText,
     headers |-> [k \in {} |-> emptyText],
     body |-> JNull,
     durationMs |-> durationMs,
     error |-> emptyText]

\* The ApiResponse of a failed call.
ErrorResult(durationMs, error) ==
    [status |-> 0,
     statusText |-> "Network error",
     contentType |-> emptyText,
     headers |-> [k \in {} |-> emptyText],
     body |-> JNull,
     durationMs |-> durationMs,
     error |-> error.message]

\* error.name === 'AbortError' || error.message.includes('Network')
IsRetriable(error) ==
    error.name = "AbortError" \/ Includes(error.message, sNetwork)

\* Math.pow(2, attempt)
RECURSIVE Pow2(_)
Pow2(k) == IF k <= 0 THEN 1 ELSE 2 * Pow2(k - 1)

\* BackoffDelay as it would be if the delay did not grow with the attempt.
BackoffDelayConstant(retryDelayMs, k) == retryDelayMs

\* retryDelayMs * Math.pow(2, attempt)
BackoffDelay(retryDelayMs, k) == retryDelayMs * Pow2(k)

\* RequestBody as it would be if the method were not looked at.
RequestBodyAnyMethod(method, body) ==
    IF TypeOf(body) = "object" THEN JStr(JSONstringify(body)) ELSE body

\* requestBody and the headers after the payload is built.
RequestBody(method, body) ==
    IF method \in BodyMethods
    THEN IF TypeOf(body) = "object" THEN JStr(JSONstringify(body)) ELSE body
    ELSE Undefined

\* RequestHeaders as it would be if Content-Type were never set.
RequestHeadersUnset(method, body, h) == h

RequestHeaders(method, body, h) ==
    IF method \in BodyMethods /\ TypeOf(body) = "object"
    THEN HeaderSet(h, "Content-Type", HeaderOr(h, "Content-Type", "application/json"))
    ELSE h

\* AttemptStart as it would be if start were taken once, before the loop.
AttemptStartOnce(a, n, prev) == IF a = 0 THEN n ELSE prev

\* const start = Date.now(), first statement of every pass of the loop.
AttemptStart(a, n, prev) == n

\* BackoffElapsed as it would be if the backoff promise were not awaited.
BackoffElapsedAtOnce(n, until) == TRUE

\* await new Promise(resolve => setTimeout(resolve, delay)): resumes at the deadline.
BackoffElapsed(n, until) == n >= until

\* clearTimeout(timeoutId) after fetch resolved, and in the catch block.
ClearTimeout(T, id) == {t \in T : t.id # id}
TimersAfterResponse(T, id) == ClearTimeout(T, id)
\* TimersAfterCatch as it would be if the catch block did not clear the timer.
TimersAfterCatchLeak(T, id) == T

TimersAfterCatch(T, id) == ClearTimeout(T, id)

(***************************************************************************)
(* Initial state: the call has not started.                                *)
(***************************************************************************)
\* The options a caller passes when it leaves the optional fields to their use.
BaseOptions ==
    [url |-> urlOk, method |-> "POST", body |-> JObj(<< <<"a", JNum(1)>> >>),
     includeRawText |-> FALSE, responseFormat |-> "",
     timeoutMs |-> 1, retries |-> 1, retryDelayMs |-> 1]

\* Calls that differ in the request they describe.
RequestOptions ==
    { [BaseOptions EXCEPT !.url = u, !.method = m, !.body = b, !.retries = r] :
        u \in Urls, m \in Methods, b \in Bodies, r \in {0, 1} }

\* Calls that differ in the timeout and retry policy.
PolicyOptions ==
    { [BaseOptions EXCEPT !.url = u, !.method = m, !.timeoutMs = t, !.retries = r,
                          !.retryDelayMs = d] :
        u \in Urls, m \in {"GET", "POST"}, t \in 1..MaxTimeout,
        r \in (-1)..MaxRetries, d \in 0..MaxRetryDelay }

\* Calls that differ in how the response is to be read.
FormatOptions ==
    { [BaseOptions EXCEPT !.includeRawText = i, !.responseFormat = f, !.retries = 0] :
        i \in BOOLEAN, f \in Formats }

\* fetchAPI has not been called.
NotCalled ==
    /\ pc = "init"
    /\ attempt = 0
    /\ now = 0
    /\ start = 0
    /\ timers = {}
    /\ backoffUntil = 0
    /\ response = NoResponse
    /\ lastError = Undefined
    /\ result = Undefined
    /\ thrown = Undefined
    /\ exchanges = <<>>
    /\ waits = <<>>
    /\ outcomes = <<>>

\* The page as useState initialises it.
PageInit ==
    /\ uiResponse = JNull
    /\ loading = FALSE
    /\ history = <<>>
    /\ selectedHistory = JNull
    /\ pending = {}
    /\ submitted = 0
    /\ reported = FALSE
    /\ uiLast = "init"

Init ==
    /\ \/ /\ opts \in RequestOptions
          /\ headers \in CallerHeaders
          /\ hasDOMParser = TRUE
          /\ server = BasicResponses
       \/ /\ opts \in PolicyOptions
          /\ headers = NoHeaders
          /\ hasDOMParser = TRUE
          /\ server = BasicResponses
       \/ /\ opts \in FormatOptions
          /\ headers = NoHeaders
          /\ hasDOMParser \in BOOLEAN
          /\ server = Responses
    /\ callerHeaders = headers
    /\ NotCalled
    /\ PageInit

(***************************************************************************)
(* The catch block of attempt a, which started at st with pending timers T.*)
(* kind says what the failure was; the code does not see it.               *)
(***************************************************************************)
Catch(a, st, T, error, kind) ==
    /\ timers' = TimersAfterCatch(T, a)
    /\ lastError' = error
    /\ outcomes' = Append(outcomes, [attempt |-> a, kind |-> kind, at |-> now])
    /\ attempt' = a
    /\ start' = st
    /\ response' = NoResponse
    /\ IF ~IsRetriable(error) \/ a = opts.retries
       THEN /\ pc' = "returned"
            /\ result' = ErrorResult(now - st, error)
            /\ UNCHANGED <<waits, backoffUntil>>
       ELSE /\ pc' = "backoff"
            /\ waits' = Append(waits, BackoffDelay(opts.retryDelayMs, a))
            /\ backoffUntil' = now + BackoffDelay(opts.retryDelayMs, a)
            /\ UNCHANGED result

(***************************************************************************)
(* One pass of the for loop from its test to the first await: attempt a.   *)
(***************************************************************************)
LoopIter(a) ==
    IF a <= opts.retries
    THEN LET T == timers \cup {[id |-> a, deadline |-> now + opts.timeoutMs]}
         IN IF opts.method \in BodyMethods /\ TypeOf(opts.body) = "object"
                 /\ StringifyThrows(opts.body)
            THEN \* JSON.stringify throws
                 /\ Catch(a, AttemptStart(a, now, start), T, TypeError(msgCircular), "other")
                 /\ UNCHANGED <<envVars, headers, now, thrown, exchanges>>
            ELSE /\ headers' = RequestHeaders(opts.method, opts.body, headers)
                 /\ IF ValidUrl(opts.url)
                    THEN \* the exchange is issued
                         /\ pc' = "fetching"
                         /\ attempt' = a
                         /\ start' = AttemptStart(a, now, start)
                         /\ timers' = T
                         /\ exchanges' = Append(exchanges,
                               [attempt |-> a,
                                at |-> now,
                                method |-> opts.method,
                                headers |-> RequestHeaders(opts.method, opts.body, headers),
                                body |-> RequestBody(opts.method, opts.body)])
                         /\ UNCHANGED <<envVars, now, backoffUntil, response,
                                        lastError, result, thrown, waits, outcomes>>
                    ELSE \* fetch rejects before anything is sent
                         /\ Catch(a, AttemptStart(a, now, start), T,
                                  TypeError(msgParseUrl \o opts.url), "other")
                         /\ UNCHANGED <<envVars, now, thrown, exchanges>>
    ELSE \* the loop is left: throw lastError
         /\ pc' = "thrown"
         /\ thrown' = lastError
         /\ attempt' = a
         /\ UNCHANGED <<envVars, headers, now, start, timers, backoffUntil,
                        response, lastError, result, exchanges, waits, outcomes>>

(***************************************************************************)
(* Actions.                                                                *)
(***************************************************************************)
\* fetchAPI(options) is called.
Call ==
    /\ pc = "init"
    /\ LoopIter(0)

\* fetch resolves: the response head has arrived.
FetchResolve ==
    /\ pc = "fetching"
    /\ \E resp \in server :
        /\ response' = resp
        /\ timers' = TimersAfterResponse(timers, attempt)
        /\ pc' = "reading"
    /\ UNCHANGED <<envVars, headers, attempt, now, start, backoffUntil,
                   lastError, result, thrown, exchanges, waits, outcomes>>

\* fetch rejects: the exchange failed in the network.
FetchFail ==
    /\ pc = "fetching"
    /\ \E m \in NetworkMessages : Catch(attempt, start, timers, TypeError(m), "network")
    /\ UNCHANGED <<envVars, headers, now, thrown, exchanges>>

\* An abort timer fires: controller.abort(), and the pending fetch rejects.
AbortTimerFires ==
    /\ \E t \in timers :
        /\ now >= t.deadline
        /\ IF pc = "fetching" /\ t.id = attempt
           THEN Catch(attempt, start, timers \ {t}, AbortError, "abort")
           ELSE /\ timers' = timers \ {t}
                /\ UNCHANGED <<pc, attempt, start, backoffUntil, response, lastError,
                               result, waits, outcomes>>
    /\ UNCHANGED <<envVars, headers, now, thrown, exchanges>>

\* response.text() resolves: the body is read, parsed and returned.
ReadDone ==
    /\ pc = "reading"
    /\ result' = SuccessResult(response, now - start, opts, hasDOMParser)
    /\ outcomes' = Append(outcomes, [attempt |-> attempt, kind |-> "response", at |-> now])
    /\ pc' = "returned"
    /\ UNCHANGED <<envVars, headers, attempt, now, start, timers,
                   backoffUntil, response, lastError, thrown, exchanges, waits>>

\* response.text() rejects: the connection broke while the body was read.
ReadFail ==
    /\ pc = "reading"
    /\ \E m \in NetworkMessages : Catch(attempt, start, timers, TypeError(m), "network")
    /\ UNCHANGED <<envVars, headers, now, thrown, exchanges>>

\* The backoff timer fires: attempt++ and the next pass of the loop.
BackoffDone ==
    /\ pc = "backoff"
    /\ BackoffElapsed(now, backoffUntil)
    /\ LoopIter(attempt + 1)

\* A millisecond passes while the call waits; no due timer is passed over.
Tick ==
    /\ pc \in {"fetching", "reading", "backoff"}
    /\ now < MaxTime
    /\ \A t \in timers : now < t.deadline
    /\ pc = "backoff" => now < backoffUntil
    /\ now' = now + 1
    /\ UNCHANGED <<envVars, headers, pc, attempt, start, timers,
                   backoffUntil, response, lastError, result, thrown, exchanges,
                   waits, outcomes>>

Next ==
    \/ Call
    \/ FetchResolve
    \/ FetchFail
    \/ AbortTimerFires
    \/ ReadDone
    \/ ReadFail
    \/ BackoffDone
    \/ Tick

Spec == Init /\ [][Next]_vars

TypeOK ==
    /\ pc \in {"init", "fetching", "reading", "backoff", "returned", "thrown"}
    /\ now \in 0..MaxTime
    /\ attempt \in 0..(MaxRetries + 1)

(***************************************************************************)
(* The page, HomePage.  A submission is handleSubmit up to its await of    *)
(* fetchAPI; its completion is the rest of handleSubmit.  The page calls   *)
(* fetchAPI with retries left at 0, so the call always returns a result.   *)
(***************************************************************************)
\* The options handleSubmit passes: includeRawText, the rest left to defaults.
PageOptions ==
    [BaseOptions EXCEPT !.includeRawText = TRUE, !.responseFormat = "", !.retries = 0]

\* What fetchAPI returns to the page, by turns: a 200, a 404, a network failure.
PageResults ==
    << SuccessResult([status |-> 200, headers |-> [k \in {"Content-Type"} |-> ctJson],
                      rawText |-> "{\"ok\":true}"], 1, PageOptions, TRUE),
       SuccessResult([status |-> 404, headers |-> [k \in {"Content-Type"} |-> ctHtml],
                      rawText |-> "<a/>"], 2, PageOptions, TRUE),
       ErrorResult(1, TypeError(msgFailedToFetch)) >>

\* The result of the id-th submission.
ResultOf(id) == PageResults[((id - 1) % Len(PageResults)) + 1]

\* prev.slice(-19) keeps this many entries.
HistoryKeep == 19

\* Array.prototype.slice(-k): the last k elements, all of them when there are fewer.
SliceLast(a, k) == IF Len(a) <= k THEN a ELSE SubSeq(a, Len(a) - k + 1, Len(a))

\* HistoryAppend as it would be if nothing were dropped.
HistoryAppendUnbounded(prev, entry) == Append(prev, entry)

\* setHistory(prev => [...prev.slice(-19), entry])
HistoryAppend(prev, entry) == Append(SliceLast(prev, HistoryKeep), entry)

\* The entry object handleSubmit creates for submission id.  The history and
\* the selection hold references to entry objects; EntryOf gives the fields.
EntryRef(id) == [t |-> "entry", id |-> id]

\* The fields of an entry: { ..., durationMs: res.durationMs, response: res }.
EntryOf(ref) ==
    [durationMs |-> ResultOf(ref.id).durationMs, response |-> ResultOf(ref.id)]

\* ClearedPage as it would be if the selection were not reset.
ClearedPageKeepsSelection(h, sel, resp) ==
    [history |-> <<>>, selectedHistory |-> sel, response |-> JNull]

\* Clear History: setHistory([]), setSelectedHistory(null), setResponse(null).
ClearedPage(h, sel, resp) ==
    [history |-> <<>>, selectedHistory |-> JNull, response |-> JNull]

\* (response || selectedHistory) &&: the response panel, with the chart and
\* the Clear History button, is rendered.
PanelShown == uiResponse # JNull \/ selectedHistory # JNull

\* selectedHistory?.response ?? response: what renderBody is given.
Displayed ==
    IF selectedHistory # JNull THEN EntryOf(selectedHistory).response ELSE uiResponse

\* if (!res.ok): res.ok is read as a property of the result; a result
\* without that property gives undefined, which is falsy.
ReportsNon2xx(res) == ~("ok" \in DOMAIN res /\ res.ok = TRUE)

OldestPending == CHOOSE id \in pending : \A other \in pending : id <= other

\* The form is submitted: handleSubmit up to the await.
Submit ==
    /\ submitted < MaxSubmits
    /\ Cardinality(pending) < MaxPending
    /\ selectedHistory' = JNull
    /\ loading' = TRUE
    /\ uiResponse' = JNull
    /\ submitted' = submitted + 1
    /\ pending' = pending \cup {submitted + 1}
    /\ uiLast' = "submit"
    /\ UNCHANGED <<history, reported>>
    /\ UNCHANGED fetchVars

\* fetchAPI returns to a pending handleSubmit: the rest of handleSubmit.
Complete ==
    /\ \E id \in pending :
        /\ id = OldestPending \/ id <= MaxOvertaker
        /\ uiResponse' = ResultOf(id)
        /\ history' = HistoryAppend(history, EntryRef(id))
        /\ reported' = ReportsNon2xx(ResultOf(id))
        /\ loading' = FALSE
        /\ pending' = pending \ {id}
        /\ uiLast' = IF Len(history) > HistoryKeep THEN "evict" ELSE "complete"
    /\ UNCHANGED <<selectedHistory, submitted>>
    /\ UNCHANGED fetchVars

\* A bar of the chart is clicked: the entry at that index is selected.
SelectBar ==
    /\ PanelShown
    /\ \E index \in DOMAIN history :
        selectedHistory' = history[index]
    /\ UNCHANGED <<uiResponse, loading, history, pending, submitted, reported, uiLast>>
    /\ UNCHANGED fetchVars

\* The Clear History button is clicked.
ClearHistory ==
    /\ PanelShown
    /\ history' = ClearedPage(history, selectedHistory, uiResponse).history
    /\ selectedHistory' = ClearedPage(history, selectedHistory, uiResponse).selectedHistory
    /\ uiResponse' = ClearedPage(history, selectedHistory, uiResponse).response
    /\ uiLast' = IF selectedHistory # JNull THEN "clear-selected" ELSE "clear"
    /\ submitted' = IF pending = {} THEN 0 ELSE submitted
    /\ UNCHANGED <<loading, pending, reported>>
    /\ UNCHANGED fetchVars

PageIdle ==
    /\ opts = PageOptions
    /\ headers = NoHeaders
    /\ hasDOMParser = TRUE
    /\ server = BasicResponses
    /\ callerHeaders = NoHeaders
    /\ NotCalled

InitPage == PageIdle /\ PageInit

NextPage ==
    \/ Submit
    \/ Complete
    \/ SelectBar
    \/ ClearHistory

SpecPage == InitPage /\ [][NextPage]_vars

(***************************************************************************)
(* Properties.                                                             *)
(***************************************************************************)
Returned == pc = "returned"
Succeeded == Returned /\ "error" \notin DOMAIN result
TransportKinds == {"network", "abort"}
ContentTypeNames(h) == {k \in DOMAIN h : LowerName(k) = "content-type"}

\* C1: every call completes by returning an ApiResponse; nothing is ever
\* thrown to the caller (throw lastError is never executed).
C1_NeverThrows == pc # "thrown"

\* C2: for method GET or DELETE every exchange issued, on every attempt,
\* carries no body, whatever options.body is.
C2_NoBodyOnGetDelete ==
    opts.method \in {"GET", "DELETE"} =>
        \A i \in DOMAIN exchanges : exchanges[i].body = Undefined

\* A GET with a body in its options has been sent twice (a retry).
C2_Witness ==
    /\ opts.method = "GET"
    /\ opts.body # Undefined
    /\ Len(exchanges) >= 2

\* C3: for POST, PUT or PATCH with a structured body and no Content-Type from
\* the caller (under any casing), every exchange carries the JSON text of the
\* body, which parses back to the body, and Content-Type application/json.
C3_JsonPayloadAndContentType ==
    (/\ opts.method \in BodyMethods
     /\ TypeOf(opts.body) = "object"
     /\ ContentTypeNames(callerHeaders) = {}) =>
        \A i \in DOMAIN exchanges :
            LET e == exchanges[i]
            IN /\ e.body.t = "string"
               /\ e.body.v = (IF opts.body = JNull THEN "null" ELSE "{\"a\":1}")
               /\ JSONparseOk(e.body.v)
               /\ JSONparse(e.body.v) = opts.body
               /\ "Content-Type" \in DOMAIN e.headers
               /\ e.headers["Content-Type"] = "application/json"
               /\ Cardinality(ContentTypeNames(e.headers)) = 1

\* A PUT of an object without caller Content-Type has been sent twice.
C3_Witness ==
    /\ opts.method = "PUT"
    /\ opts.body = JObj(<< <<"a", JNum(1)>> >>)
    /\ ContentTypeNames(callerHeaders) = {}
    /\ Len(exchanges) >= 2

\* C4: when the caller has set a Content-Type, under any casing of the name
\* and with any value, every exchange carries exactly one Content-Type: the
\* caller's, unchanged.
C4_CallerContentTypeKept ==
    ContentTypeNames(callerHeaders) # {} =>
        \A i \in DOMAIN exchanges :
            /\ ContentTypeNames(exchanges[i].headers) = ContentTypeNames(callerHeaders)
            /\ \A k \in ContentTypeNames(callerHeaders) :
                   exchanges[i].headers[k] = callerHeaders[k]

\* C5: no attempt ends in success after its timeout has elapsed: a successful
\* result was produced within timeoutMs of the start of its attempt.
C5_NoSuccessAfterTimeout ==
    Succeeded => result.durationMs <= opts.timeoutMs

\* C6: the abort timer of an attempt is cleared on every exit path: none is
\* pending when the call has returned or thrown, during a backoff wait or
\* while the body is read, and at most one, the current attempt's, is pending
\* at any time.
C6_AbortTimerCleared ==
    /\ pc \in {"returned", "thrown", "backoff", "reading"} => timers = {}
    /\ Cardinality(timers) <= 1
    /\ \A t \in timers : t.id = attempt /\ t.deadline = start + opts.timeoutMs

\* The call returned on its second attempt, after a failure and a backoff.
C6_Witness ==
    /\ Returned
    /\ Len(outcomes) = 2
    /\ Len(waits) = 1
    /\ timers = {}

\* C7: an attempt that fails with a transport-level failure (timeout abort or
\* network failure, whatever its message) while attempts remain is followed
\* by a backoff wait, not by a return.
C7_TransportFailureRetried ==
    \A i \in DOMAIN outcomes :
        (outcomes[i].kind \in TransportKinds /\ outcomes[i].attempt < opts.retries)
            => Len(waits) >= i

\* C8: an attempt that fails with a failure that is neither a timeout abort
\* nor a network failure ends the call: the failure result is returned with
\* no backoff wait and no further attempt.
C8_OtherFailureReturnsAtOnce ==
    \A i \in DOMAIN outcomes :
        outcomes[i].kind = "other" =>
            /\ Returned
            /\ i = Len(outcomes)
            /\ Len(waits) = i - 1

\* C9: the backoff wait after the failed attempt with index k lasts exactly
\* retryDelayMs * 2^k; successive waits strictly increase when retryDelayMs > 0.
C9_BackoffExponential ==
    /\ \A i \in DOMAIN waits : waits[i] = opts.retryDelayMs * (2 ^ (i - 1))
    /\ \A i, j \in DOMAIN waits : (opts.retryDelayMs > 0 /\ i < j) => waits[i] < waits[j]
    /\ pc = "backoff" =>
          /\ Len(waits) = attempt + 1
          /\ backoffUntil = outcomes[Len(outcomes)].at + opts.retryDelayMs * (2 ^ attempt)
          /\ now <= backoffUntil

\* Three waits of 1, 2 and 4 times a positive retryDelayMs have been started.
C9_Witness ==
    /\ opts.retryDelayMs > 0
    /\ Len(waits) = 3
    /\ pc = "backoff"

\* C10: if the first k attempts each failed with a network error and attempt
\* k+1 received a response, the call returns the result of that response (its
\* status and parsed body, no error) and exactly k backoff waits occurred.
C10_SuccessAfterNetworkFailures ==
    (/\ Returned
     /\ Len(outcomes) >= 1
     /\ outcomes[Len(outcomes)].kind = "response"
     /\ \A i \in 1..(Len(outcomes) - 1) : outcomes[i].kind = "network") =>
        /\ "error" \notin DOMAIN result
        /\ result.status = response.status
        /\ result.status \in Statuses
        /\ (response.rawText = "{\"ok\":true}" /\ opts.responseFormat = ""
                /\ response.headers = [k \in {"Content-Type"} |-> ctJson])
              => result.body = JObj(<< <<"ok", JBool(TRUE)>> >>)
        /\ Len(waits) = Len(outcomes) - 1
        /\ Len(waits) <= opts.retries
        /\ \A i \in DOMAIN waits : outcomes[i].at + waits[i] <= outcomes[i + 1].at

\* Two network failures, then status 200 with the JSON body {"ok":true}, on a
\* GET with retries 2: the scenario of the specification.
C10_Witness ==
    /\ Returned
    /\ opts.method = "GET" /\ opts.retries = 2
    /\ Len(outcomes) = 3
    /\ outcomes[1].kind = "network" /\ outcomes[2].kind = "network"
    /\ outcomes[3].kind = "response"
    /\ result.status = 200
    /\ result.body = JObj(<< <<"ok", JBool(TRUE)>> >>)
    /\ Len(waits) = 2

\* The last attempt that ended, and how.
LastOutcome == outcomes[Len(outcomes)]
Failed == Len(outcomes) >= 1 /\ LastOutcome.kind # "response"
Responded == Len(outcomes) >= 1 /\ LastOutcome.kind = "response"
\* The content type the response was received with ("" when it had none).
ReceivedContentType ==
    IF DOMAIN response.headers = {} THEN emptyText ELSE response.headers["Content-Type"]
DocumentOrText(raw, mime) == IF hasDOMParser THEN Document(raw, mime) ELSE JStr(raw)
JsonOrText(raw) ==
    IF raw = "{\"ok\":true}" THEN JObj(<< <<"ok", JBool(TRUE)>> >>) ELSE JStr(raw)

\* C11: whenever a call ends in failure (the last permitted attempt failed, or
\* a failure was not retried) the result has status 0, statusText "Network
\* error", no headers, a null body and a non-empty error, the failure's message.
C11_FailureResult ==
    /\ \A i \in DOMAIN outcomes :
          (outcomes[i].kind # "response" /\ outcomes[i].attempt = opts.retries)
              => Returned /\ i = Len(outcomes)
    /\ (Returned /\ Failed) =>
          /\ result.status = 0
          /\ result.statusText = "Network error"
          /\ DOMAIN result.headers = {}
          /\ result.body = JNull
          /\ "error" \in DOMAIN result
          /\ Len(result.error) > 0
          /\ result.error = lastError.message
          /\ LastOutcome.kind = "abort" => result.error = msgAborted
          /\ LastOutcome.kind = "network" => result.error \in NetworkMessages

\* A request that did not complete before timeoutMs, with retries 0.
C11_Witness ==
    /\ Returned
    /\ opts.retries = 0
    /\ Len(outcomes) = 1
    /\ outcomes[1].kind = "abort"
    /\ result.status = 0

\* C12: every result returned is of exactly one kind: the result of a
\* completed exchange, with that response's status line and no error field;
\* or an error with status 0.  None has both, none has status 0 and no error.
C12_ResultShape ==
    Returned =>
        LET exchange == /\ Responded
                        /\ "error" \notin DOMAIN result
                        /\ result.status = response.status
                        /\ result.status >= 200
                        /\ result.statusText # "Network error"
            failure == /\ "error" \in DOMAIN result
                       /\ result.status = 0
        IN /\ exchange \/ failure
           /\ ~(exchange /\ failure)
           /\ "error" \in DOMAIN result <=> result.status = 0
           /\ "error" \in DOMAIN result <=> Failed

\* A 404 came back on the second attempt: a result with a status line, no error.
C12_Witness ==
    /\ Succeeded
    /\ result.status = 404
    /\ Len(outcomes) = 2

\* C13: a call that has ended made at least one and at most retries + 1
\* attempts, and at most retries backoff waits.
C13_AttemptsWithinBudget ==
    pc \in {"returned", "thrown"} =>
        /\ Len(outcomes) >= 1
        /\ Len(outcomes) <= opts.retries + 1
        /\ Len(waits) <= opts.retries

\* The attempts whose exchange was issued and has not ended.
InFlight ==
    {exchanges[i].attempt : i \in DOMAIN exchanges}
        \ {outcomes[i].attempt : i \in DOMAIN outcomes}

\* C14: the retry loop is sequential: at most one exchange is in flight, none
\* during a backoff wait; a wait starts when the attempt before it has ended and
\* a later attempt starts only when the wait has elapsed.
C14_Sequential ==
    /\ Cardinality(InFlight) <= 1
    /\ InFlight # {} <=> pc \in {"fetching", "reading"}
    /\ \A i \in DOMAIN outcomes : outcomes[i].attempt = i - 1
    /\ \A j \in DOMAIN waits : j <= Len(outcomes)
    /\ \A i \in DOMAIN exchanges :
          /\ \A j \in DOMAIN outcomes :
                outcomes[j].attempt < exchanges[i].attempt
                    => outcomes[j].at <= exchanges[i].at
          /\ \A j \in DOMAIN waits :
                j <= exchanges[i].attempt
                    => outcomes[j].at + waits[j] <= exchanges[i].at

\* A second exchange is in flight after a wait that took time.
C14_Witness ==
    /\ pc = "fetching"
    /\ Len(exchanges) = 2
    /\ Len(waits) = 1
    /\ waits[1] > 0
    /\ InFlight = {1}

\* C15: when responseFormat is given, the body is read in the mode it names,
\* whatever the content type of the response.
C15_FormatWins ==
    (Succeeded /\ opts.responseFormat # "") =>
        result.body =
            CASE opts.responseFormat = "json" -> JsonOrText(response.rawText)
              [] opts.responseFormat = "xml" ->
                    DocumentOrText(response.rawText, "application/xml")
              [] opts.responseFormat = "html" ->
                    DocumentOrText(response.rawText, "text/html")

\* responseFormat xml against a response of content type application/json.
C15_Witness ==
    /\ Succeeded
    /\ opts.responseFormat = "xml"
    /\ ReceivedContentType = ctJson
    /\ result.body = Document(response.rawText, "application/xml")

\* C16: without responseFormat the mode follows the content type:
\* application/json gives JSON; application/xml, text/xml and
\* application/xhtml+xml give an XML document; text/html gives an HTML
\* document; any other or no content type gives the raw text.
C16_InferredFromContentType ==
    (Succeeded /\ opts.responseFormat = "") =>
        result.body =
            CASE ReceivedContentType \in {ctJson, ctJsonUtf8} ->
                    JsonOrText(response.rawText)
              [] ReceivedContentType \in {ctAppXml, ctTextXml, ctXhtml} ->
                    DocumentOrText(response.rawText, "application/xml")
              [] ReceivedContentType = ctHtml ->
                    DocumentOrText(response.rawText, "text/html")
              [] ReceivedContentType \in {ctPlain, emptyText} ->
                    JStr(response.rawText)

\* A text/xml response was read as an XML document.
C16_Witness ==
    /\ Succeeded
    /\ opts.responseFormat = ""
    /\ ReceivedContentType = ctTextXml
    /\ result.body = Document(response.rawText, "application/xml")

JsonMode ==
    \/ opts.responseFormat = "json"
    \/ opts.responseFormat = "" /\ ReceivedContentType \in {ctJson, ctJsonUtf8}

\* C17: in JSON mode a response text that is not valid JSON still gives the
\* successful result of the exchange: the response's status, no error, no
\* retry, and the raw text as body.
C17_InvalidJsonKeepsRawText ==
    (Responded /\ JsonMode /\ response.rawText \in {"oops", "<a/>"}) =>
        /\ Succeeded
        /\ result.status = response.status
        /\ result.body = JStr(response.rawText)
        /\ Len(waits) = Len(outcomes) - 1

\* "oops" came back under responseFormat json.
C17_Witness ==
    /\ Succeeded
    /\ opts.responseFormat = "json"
    /\ response.rawText = "oops"
    /\ result.body = JStr("oops")

\* C20: durationMs of the result is the time from the start of the attempt
\* that produced it to its end: it holds neither an earlier attempt nor a wait.
C20_DurationOfLastAttempt ==
    Returned =>
        LET n == Len(outcomes)
            sent == {i \in DOMAIN exchanges : exchanges[i].attempt = n - 1}
        IN /\ result.durationMs >= 0
           /\ \A i \in sent : result.durationMs = outcomes[n].at - exchanges[i].at
           /\ sent = {} => result.durationMs = 0
           /\ n >= 2 =>
                 result.durationMs <= outcomes[n].at - (outcomes[n - 1].at + waits[n - 1])

\* The result comes from a second attempt that took time, after a first
\* attempt and a wait that both took time.
C20_Witness ==
    /\ Returned
    /\ Len(outcomes) = 2
    /\ outcomes[1].at >= 1
    /\ waits[1] >= 1
    /\ result.durationMs >= 1

\* C18: the history never holds more than 20 entries; an append to a
\* history of 20 drops exactly the oldest entry and keeps the other 19 in
\* their order, followed by the new entry.
C18_HistoryBounded ==
    /\ [](Len(history) <= 20)
    /\ [][(Len(history) = 20 /\ history' # history /\ history' # <<>>) =>
            /\ Len(history') = 20
            /\ SubSeq(history', 1, 19) = Tail(history)
            /\ \A i \in DOMAIN history : history'[20] # history[i]]_vars

\* A completion has just dropped the oldest of 20 entries.
C18_Witness ==
    /\ uiLast = "evict"
    /\ Len(history) = 20
    /\ submitted >= 21

\* C19: Clear History leaves the history empty and no entry selected; the
\* display then shows nothing of a selected entry.
C19_ClearResets ==
    uiLast \in {"clear", "clear-selected"} =>
        /\ history = <<>>
        /\ selectedHistory = JNull
        /\ Displayed = JNull
        /\ ~PanelShown

\* Clear History was clicked while an entry was selected.
C19_Witness ==
    /\ uiLast = "clear-selected"
    /\ history = <<>>
    /\ submitted >= 1

\* C21: when the call has returned, the caller's headers mapping holds
\* exactly the entries it held when the call was made; no Content-Type entry
\* has been added to it.
C21_CallerHeadersUntouched ==
    Returned => headers = callerHeaders

C22_ReportIffNon2xx ==
    uiLast \in {"complete", "evict"} =>
        (reported <=> uiResponse.status \notin 200..299)

\* C24: the loading flag is true exactly when some submitted request has not
\* completed yet.
C24_LoadingIffPending ==
    loading <=> pending # {}

\* C25: once every submitted request has completed, the response shown is
\* the result of the most recently submitted request.
C25_LatestResponse ==
    (pending = {} /\ uiLast \in {"complete", "evict"}) =>
        uiResponse = ResultOf(submitted)

\* C26: the selected entry is null or an entry the history holds.
C26_SelectedInHistory ==
    selectedHistory = JNull \/ \E i \in DOMAIN history : history[i] = selectedHistory

====
